---- MODULE Spec2Model ----
(***************************************************************************)
(* The concurrent file-download pipeline of slackdump (files.go):          *)
(* filesFromMessages, SaveFileTo, fileDownloader, worker and seenFilter.   *)
(*                                                                         *)
(* Goroutines are processes with a program counter each.  An unbuffered Go *)
(* channel is a rendezvous: the send and the matching receive are one      *)
(* step.  sync.WaitGroup is modelled by its counter and its waiter count,  *)
(* including the misuse panics of the Go runtime that Add racing with Wait *)
(* can produce.                                                            *)
(***************************************************************************)
EXTENDS Integers, Sequences, FiniteSets, TLC

\* ---------------------------------------------------------------- bounds
MaxWorkers == 2      \* largest value of sd.options.workers explored
MaxLen == 3          \* longest sequence sent on toDownload
MaxMsgs == 2         \* longest message slice given to filesFromMessages
MaxAttach == 2       \* longest Files slice of one message or reply
MaxReplies == 1      \* longest ThreadReplies slice of one message

\* ---------------------------------------------------------------- data
IDs == {"F1", "F2"}
Names == {"a", "b"}

\* slack.File, reduced to the fields files.go reads.
File == [ID : IDs, Name : Names]

NoFile == [ID |-> "", Name |-> ""]

WorkerIds == 1 .. MaxWorkers

SeqsUpTo(S, n) == UNION {[1 .. k -> S] : k \in 0 .. n}

\* The sequences the caller sends on toDownload.  IDs and names are
\* interchangeable, so a non-empty sequence starts with the file F1-a.
Inputs ==
    {<<>>} \cup
    {<<[ID |-> "F1", Name |-> "a"]>> \o s : s \in SeqsUpTo(File, MaxLen - 1)}

\* filename: fmt.Sprintf("%s-%s", f.ID, f.Name)
filename(f) == <<f.ID, "-", f.Name>>

VARIABLES
    messages,     \* ch.Messages, the argument of filesFromMessages
    chFiles,      \* the Files of ChannelFiles' result: [set, Files]
    dumpfiles,    \* sd.options.dumpfiles
    workers,      \* sd.options.workers
    toDownload,   \* the caller's channel: [items, next, closed]
    ctxDone,      \* the caller's context has been cancelled
    fdPc,         \* fileDownloader: "start", "mkdir", "spawn", "returned"
    retErr,       \* error returned by fileDownloader: "none" until it returns
    done,         \* the done channel: "open" or "closed"
    dirState,     \* the target directory: "absent", "present"
    mkdirErr,     \* fileDownloader: err of os.Mkdir while in scope, else "none"
    wg,           \* sync.WaitGroup: [counter, waiters]
    launcher,     \* worker-creating goroutine: [pc, i]
    sentinel,     \* sentinel goroutine pc
    wpc,          \* worker goroutines: pc
    cur,          \* worker goroutines: the file held (loop variable file)
    fpc,          \* seenFilter goroutines: pc
    seen,         \* seenFilter goroutines: the seen map (its key set)
    held,         \* seenFilter goroutines: f while blocked on dlQ <- f
    recvd,        \* per seenFilter: files received from filesC, in order
    sent,         \* per seenFilter: files delivered on dlQ, in order
    admitted,     \* files the seenFilters have sent on a dlQ (dlQ <- f), in order
    attempts,     \* per worker: files for which os.Create was called, in order
    saveErr,      \* worker goroutines: err of SaveFileTo in the current iteration
    permits,      \* limiter permits granted by l.Wait
    panicked      \* the process died of a runtime panic

vars == <<messages, chFiles, dumpfiles, workers, toDownload, ctxDone, fdPc, retErr,
          done, dirState, mkdirErr, wg, launcher, sentinel, wpc, cur, fpc, seen, held,
          recvd, sent, admitted, attempts, saveErr, permits, panicked>>

cfgVars == <<messages, chFiles, dumpfiles, workers>>
fdVars == <<fdPc, retErr, dirState, mkdirErr>>
filterVars == <<fpc, seen, held, recvd, admitted>>
workerVars == <<wpc, cur, attempts, saveErr, permits>>

\* ---------------------------------------------------------------- Init
Init ==
    /\ messages = <<>>
    /\ chFiles = [set |-> FALSE, Files |-> <<>>]
    /\ dumpfiles \in BOOLEAN
    /\ workers \in 1 .. MaxWorkers
    /\ toDownload \in [items : Inputs, next : {1}, closed : {FALSE}]
    /\ ctxDone = FALSE
    /\ fdPc = "start"
    /\ retErr = "none"
    /\ done = "open"
    /\ dirState \in {"absent", "present"}
    /\ mkdirErr = "none"
    /\ wg = [counter |-> 0, waiters |-> 0]
    /\ launcher = [pc |-> "idle", i |-> 0]
    /\ sentinel = "idle"
    /\ wpc = [w \in WorkerIds |-> "idle"]
    /\ cur = [w \in WorkerIds |-> NoFile]
    /\ fpc = [w \in WorkerIds |-> "idle"]
    /\ seen = [w \in WorkerIds |-> {}]
    /\ held = [w \in WorkerIds |-> NoFile]
    /\ recvd = [w \in WorkerIds |-> <<>>]
    /\ sent = [w \in WorkerIds |-> <<>>]
    /\ admitted = <<>>
    /\ attempts = [w \in WorkerIds |-> <<>>]
    /\ saveErr = [w \in WorkerIds |-> "none"]
    /\ permits = 0
    /\ panicked = FALSE

\* ---------------------------------------------------------------- caller
\* The caller of fileDownloader owns toDownload: it sends the files in order
\* (each send is a rendezvous with a receiving seenFilter, see FilterRecv) and
\* closes the channel after the last send ("files queue must be closed by the
\* caller").
CallerOffers == ~toDownload.closed /\ toDownload.next <= Len(toDownload.items)

CallerClose ==
    /\ ~panicked
    /\ ~toDownload.closed
    /\ toDownload.next > Len(toDownload.items)
    /\ toDownload' = [toDownload EXCEPT !.closed = TRUE]
    /\ UNCHANGED <<cfgVars, ctxDone, fdVars, done, wg, launcher, sentinel,
                   filterVars, sent, workerVars, panicked>>

\* The caller cancels ctx (signal.NotifyContext in run): possible at any time.
Cancel ==
    /\ ~panicked
    /\ ~ctxDone
    /\ ctxDone' = TRUE
    /\ UNCHANGED <<cfgVars, toDownload, fdVars, done, wg, launcher, sentinel,
                   filterVars, sent, workerVars, panicked>>

\* ---------------------------------------------------------------- fileDownloader
\* Faulty variant of FDCheckDumpfiles: the dumpfiles option is not consulted.
FDCheckDumpfiles_NoShortCircuit ==
    /\ ~panicked
    /\ fdPc = "start"
    /\ fdPc' = "mkdir"
    /\ UNCHANGED <<cfgVars, toDownload, ctxDone, done, retErr, dirState, mkdirErr, wg,
                   launcher, sentinel, filterVars, sent, workerVars, panicked>>

\* done := make(chan struct{}); if !sd.options.dumpfiles { close(done); return done, nil }
FDCheckDumpfiles ==
    /\ ~panicked
    /\ fdPc = "start"
    /\ IF ~dumpfiles
         THEN /\ done' = "closed"
              /\ retErr' = "nil"
              /\ fdPc' = "returned"
         ELSE /\ fdPc' = "mkdir"
              /\ UNCHANGED <<done, retErr>>
    /\ UNCHANGED <<cfgVars, toDownload, ctxDone, dirState, mkdirErr, wg, launcher,
                   sentinel, filterVars, sent, workerVars, panicked>>

\* The results os.Mkdir(dir, 0777) can have: the directory exists already
\* ("exist"), it is created ("nil"), or creation fails otherwise ("other").
MkdirResults == IF dirState = "present" THEN {"exist"} ELSE {"nil", "other"}

\* Faulty variant of MkdirIsFatal: every Mkdir error is returned.
MkdirIsFatal_AnyError(err) == err # "nil"

\* Faulty variant of MkdirIsFatal: the os.IsExist test is inverted.
MkdirIsFatal_Inverted(err) == err = "exist"

\* if err != nil { if !os.IsExist(err) { return done, err } }
MkdirIsFatal(err) == err # "nil" /\ err # "exist"

\* if err := os.Mkdir(dir, 0777); err != nil { if !os.IsExist(err) { return done, err } }
FDMkdir ==
    /\ ~panicked
    /\ fdPc = "mkdir"
    /\ \E err \in MkdirResults :
         /\ mkdirErr' = err
         /\ dirState' = IF err = "nil" THEN "present" ELSE dirState
         /\ IF MkdirIsFatal(err)
              THEN /\ retErr' = err
                   /\ fdPc' = "returned"
              ELSE /\ fdPc' = "spawn"
                   /\ UNCHANGED retErr
    /\ UNCHANGED <<cfgVars, toDownload, ctxDone, done, wg, launcher, sentinel,
                   filterVars, sent, workerVars, panicked>>

\* go func(){ create workers }(); go func(){ sentinel }(); return done, nil
FDStart ==
    /\ ~panicked
    /\ fdPc = "spawn"
    /\ launcher' = [pc |-> "loop", i |-> 0]
    /\ sentinel' = "wait"
    /\ retErr' = "nil"
    /\ mkdirErr' = "none"
    /\ fdPc' = "returned"
    /\ UNCHANGED <<cfgVars, toDownload, ctxDone, done, dirState, wg,
                   filterVars, sent, workerVars, panicked>>

\* Faulty variant of LauncherSpawn: the loop does not stop at the configured
\* number of workers.
LauncherSpawn_NoBound ==
    /\ ~panicked
    /\ launcher.pc = "loop"
    /\ launcher.i < MaxWorkers
    /\ IF wg.counter = 0 /\ wg.waiters > 0
         THEN /\ panicked' = TRUE
              /\ UNCHANGED <<wg, launcher, wpc>>
         ELSE /\ wg' = [wg EXCEPT !.counter = @ + 1]
              /\ launcher' = [launcher EXCEPT !.i = @ + 1]
              /\ wpc' = [wpc EXCEPT ![launcher.i + 1] = "spawned"]
              /\ UNCHANGED panicked
    /\ UNCHANGED <<cfgVars, toDownload, ctxDone, fdVars, done, sentinel,
                   filterVars, sent, cur, attempts, saveErr, permits>>

\* ---------------------------------------------------------------- worker-creating goroutine
\* for i := 0; i < sd.options.workers; i++ { wg.Add(1); go func(){...}() }
\* WaitGroup.Add panics ("Add called concurrently with Wait") when it raises the
\* counter from zero while a waiter is still registered, i.e. between the Done
\* that brought the counter to zero and that Done's release of the waiter.
LauncherSpawn ==
    /\ ~panicked
    /\ launcher.pc = "loop"
    /\ launcher.i < workers
    /\ IF wg.counter = 0 /\ wg.waiters > 0
         THEN /\ panicked' = TRUE
              /\ UNCHANGED <<wg, launcher, wpc>>
         ELSE /\ wg' = [wg EXCEPT !.counter = @ + 1]
              /\ launcher' = [launcher EXCEPT !.i = @ + 1]
              /\ wpc' = [wpc EXCEPT ![launcher.i + 1] = "spawned"]
              /\ UNCHANGED panicked
    /\ UNCHANGED <<cfgVars, toDownload, ctxDone, fdVars, done, sentinel,
                   filterVars, sent, cur, attempts, saveErr, permits>>

LauncherExit ==
    /\ ~panicked
    /\ launcher.pc = "loop"
    /\ launcher.i >= workers
    /\ launcher' = [launcher EXCEPT !.pc = "exited"]
    /\ UNCHANGED <<cfgVars, toDownload, ctxDone, fdVars, done, wg, sentinel,
                   filterVars, sent, workerVars, panicked>>

\* ---------------------------------------------------------------- sentinel
\* wg.Wait(): returns at once when the counter is zero, else registers as a
\* waiter and sleeps.
SentinelWait ==
    /\ ~panicked
    /\ sentinel = "wait"
    /\ IF wg.counter = 0
         THEN /\ sentinel' = "close"
              /\ UNCHANGED wg
         ELSE /\ sentinel' = "blocked"
              /\ wg' = [wg EXCEPT !.waiters = @ + 1]
    /\ UNCHANGED <<cfgVars, toDownload, ctxDone, fdVars, done, launcher,
                   filterVars, sent, workerVars, panicked>>

\* wg.Wait() after the semaphore was released: panics ("WaitGroup is reused
\* before previous Wait has returned") if the state is no longer zero.
SentinelWake ==
    /\ ~panicked
    /\ sentinel = "woken"
    /\ IF wg.counter # 0
         THEN /\ panicked' = TRUE
              /\ UNCHANGED sentinel
         ELSE /\ sentinel' = "close"
              /\ UNCHANGED panicked
    /\ UNCHANGED <<cfgVars, toDownload, ctxDone, fdVars, done, wg, launcher,
                   filterVars, sent, workerVars>>

\* close(done)
SentinelClose ==
    /\ ~panicked
    /\ sentinel = "close"
    /\ done' = "closed"
    /\ sentinel' = "exited"
    /\ UNCHANGED <<cfgVars, toDownload, ctxDone, fdVars, wg, launcher,
                   filterVars, sent, workerVars, panicked>>

\* ---------------------------------------------------------------- seenFilter
\* Faulty variant of seenFilterStep: the ID is not recorded in seen.
seenFilterStep_NoMark(seenIDs, f) ==
    [seen |-> seenIDs, emit |-> f.ID \notin seenIDs]

\* One iteration of "for f := range filesC": the new seen set and whether f
\* is passed on.
\*   if _, ok := seen[f.ID]; ok { continue }; seen[f.ID] = true; dlQ <- f
seenFilterStep(seenIDs, f) ==
    IF f.ID \in seenIDs
      THEN [seen |-> seenIDs, emit |-> FALSE]
      ELSE [seen |-> seenIDs \cup {f.ID}, emit |-> TRUE]

\* The worker goroutine starts: it evaluates seenFilter(toDownload), which makes
\* dlQ and starts the filtering goroutine, then enters sd.worker.
WorkerStart(w) ==
    /\ ~panicked
    /\ wpc[w] = "spawned"
    /\ wpc' = [wpc EXCEPT ![w] = "recv"]
    /\ fpc' = [fpc EXCEPT ![w] = "recv"]
    /\ seen' = [seen EXCEPT ![w] = {}]
    /\ UNCHANGED <<cfgVars, toDownload, ctxDone, fdVars, done, wg, launcher, sentinel,
                   held, recvd, admitted, sent, cur, attempts, saveErr, permits, panicked>>

\* Faulty variant of FilterRecv: dlQ is buffered, so the stage takes the
\* next file while the one it admitted is still undelivered.
FilterRecv_NoBlock(w) ==
    /\ ~panicked
    /\ fpc[w] \in {"recv", "send"}
    /\ CallerOffers
    /\ LET f == toDownload.items[toDownload.next]
           r == seenFilterStep(seen[w], f)
       IN /\ toDownload' = [toDownload EXCEPT !.next = @ + 1]
          /\ recvd' = [recvd EXCEPT ![w] = Append(@, f)]
          /\ seen' = [seen EXCEPT ![w] = r.seen]
          /\ IF r.emit
               THEN /\ held' = [held EXCEPT ![w] = f]
                    /\ fpc' = [fpc EXCEPT ![w] = "send"]
                    /\ admitted' = Append(admitted, f)
               ELSE UNCHANGED <<held, fpc, admitted>>
    /\ UNCHANGED <<cfgVars, ctxDone, fdVars, done, wg, launcher, sentinel,
                   sent, workerVars, panicked>>

\* for f := range filesC: receive the caller's next file.
FilterRecv(w) ==
    /\ ~panicked
    /\ fpc[w] = "recv"
    /\ CallerOffers
    /\ LET f == toDownload.items[toDownload.next]
           r == seenFilterStep(seen[w], f)
       IN /\ toDownload' = [toDownload EXCEPT !.next = @ + 1]
          /\ recvd' = [recvd EXCEPT ![w] = Append(@, f)]
          /\ seen' = [seen EXCEPT ![w] = r.seen]
          /\ IF r.emit
               THEN /\ held' = [held EXCEPT ![w] = f]
                    /\ fpc' = [fpc EXCEPT ![w] = "send"]
                    /\ admitted' = Append(admitted, f)
               ELSE UNCHANGED <<held, fpc, admitted>>
    /\ UNCHANGED <<cfgVars, ctxDone, fdVars, done, wg, launcher, sentinel,
                   sent, workerVars, panicked>>

\* range filesC ends when filesC is closed: defer close(dlQ).
FilterClose(w) ==
    /\ ~panicked
    /\ fpc[w] = "recv"
    /\ toDownload.closed
    /\ fpc' = [fpc EXCEPT ![w] = "closed"]
    /\ UNCHANGED <<cfgVars, toDownload, ctxDone, fdVars, done, wg, launcher, sentinel,
                   seen, held, recvd, admitted, sent, workerVars, panicked>>

\* ---------------------------------------------------------------- worker
\* dlQ <- f meets "for file := range filesC" of the worker.
WorkerRecv(w) ==
    /\ ~panicked
    /\ fpc[w] = "send"
    /\ wpc[w] = "recv"
    /\ cur' = [cur EXCEPT ![w] = held[w]]
    /\ sent' = [sent EXCEPT ![w] = Append(@, held[w])]
    /\ held' = [held EXCEPT ![w] = NoFile]
    /\ fpc' = [fpc EXCEPT ![w] = "recv"]
    /\ wpc' = [wpc EXCEPT ![w] = "create"]
    /\ saveErr' = [saveErr EXCEPT ![w] = "none"]
    /\ UNCHANGED <<cfgVars, toDownload, ctxDone, fdVars, done, wg, launcher, sentinel,
                   seen, recvd, admitted, attempts, permits, panicked>>

\* Faulty variant of AfterSave: the worker returns on the first error.
AfterSave_ReturnOnError(err) == IF err = "nil" THEN "recv" ELSE "exited"

\* Where the worker loop goes after SaveFileTo returned err: the error is only
\* logged, the loop takes the next file.
AfterSave(err) == "recv"

\* Faulty variant of SaveCreate: the limiter wait comes right after the
\* file is created, before the transfer.
SaveCreate_WaitFirst(w) ==
    /\ ~panicked
    /\ wpc[w] = "create"
    /\ attempts' = [attempts EXCEPT ![w] = Append(@, cur[w])]
    /\ \E ok \in BOOLEAN :
         IF ok
           THEN /\ wpc' = [wpc EXCEPT ![w] = "limit"]
                /\ UNCHANGED saveErr
           ELSE /\ wpc' = [wpc EXCEPT ![w] = "recv"]
                /\ saveErr' = [saveErr EXCEPT ![w] = "create"]
    /\ UNCHANGED <<cfgVars, toDownload, ctxDone, fdVars, done, wg, launcher, sentinel,
                   filterVars, sent, cur, permits, panicked>>

\* SaveFileTo: file, err := os.Create(filePath); if err != nil { return 0, err }
SaveCreate(w) ==
    /\ ~panicked
    /\ wpc[w] = "create"
    /\ attempts' = [attempts EXCEPT ![w] = Append(@, cur[w])]
    /\ \E ok \in BOOLEAN :
         IF ok
           THEN /\ wpc' = [wpc EXCEPT ![w] = "transfer"]
                /\ UNCHANGED saveErr
           ELSE /\ wpc' = [wpc EXCEPT ![w] = AfterSave("create")]
                /\ saveErr' = [saveErr EXCEPT ![w] = "create"]
    /\ UNCHANGED <<cfgVars, toDownload, ctxDone, fdVars, done, wg, launcher, sentinel,
                   filterVars, sent, cur, permits, panicked>>

\* Faulty variant of SaveTransfer: the limiter wait is also reached when
\* GetFile failed.
SaveTransfer_WaitOnError(w) ==
    /\ ~panicked
    /\ wpc[w] = "transfer"
    /\ \E ok \in BOOLEAN :
         IF ok
           THEN /\ wpc' = [wpc EXCEPT ![w] = "limit"]
                /\ UNCHANGED saveErr
           ELSE /\ wpc' = [wpc EXCEPT ![w] = "limit"]
                /\ saveErr' = [saveErr EXCEPT ![w] = "transfer"]
    /\ UNCHANGED <<cfgVars, toDownload, ctxDone, fdVars, done, wg, launcher, sentinel,
                   filterVars, sent, cur, attempts, permits, panicked>>

\* SaveFileTo: if err := sd.client.GetFile(url, file); err != nil { return 0, err }
SaveTransfer(w) ==
    /\ ~panicked
    /\ wpc[w] = "transfer"
    /\ \E ok \in BOOLEAN :
         IF ok
           THEN /\ wpc' = [wpc EXCEPT ![w] = "limit"]
                /\ UNCHANGED saveErr
           ELSE /\ wpc' = [wpc EXCEPT ![w] = AfterSave("transfer")]
                /\ saveErr' = [saveErr EXCEPT ![w] = "transfer"]
    /\ UNCHANGED <<cfgVars, toDownload, ctxDone, fdVars, done, wg, launcher, sentinel,
                   filterVars, sent, cur, attempts, permits, panicked>>

\* SaveFileTo: l.Wait(ctx); return int64(f.Size), nil.  Wait grants a permit, or
\* returns without one when ctx is cancelled.
SaveLimit(w) ==
    /\ ~panicked
    /\ wpc[w] = "limit"
    /\ permits' = IF ctxDone THEN permits ELSE permits + 1
    /\ wpc' = [wpc EXCEPT ![w] = AfterSave("nil")]
    /\ saveErr' = [saveErr EXCEPT ![w] = "nil"]
    /\ UNCHANGED <<cfgVars, toDownload, ctxDone, fdVars, done, wg, launcher, sentinel,
                   filterVars, sent, cur, attempts, panicked>>

\* range filesC ends (dlQ closed), sd.worker returns, wg.Done().  A Done that
\* brings the counter to zero with a waiter registered goes on to release it.
WorkerDone(w) ==
    /\ ~panicked
    /\ wpc[w] = "recv"
    /\ fpc[w] = "closed"
    /\ wg' = [wg EXCEPT !.counter = @ - 1]
    /\ wpc' = [wpc EXCEPT ![w] = IF wg.counter = 1 /\ wg.waiters > 0
                                   THEN "release" ELSE "exited"]
    /\ saveErr' = [saveErr EXCEPT ![w] = "none"]
    /\ UNCHANGED <<cfgVars, toDownload, ctxDone, fdVars, done, launcher, sentinel,
                   filterVars, sent, cur, attempts, permits, panicked>>

\* wg.Done(), second half: reset the waiter count and release the semaphore.
WorkerRelease(w) ==
    /\ ~panicked
    /\ wpc[w] = "release"
    /\ wg' = [wg EXCEPT !.waiters = 0]
    /\ sentinel' = "woken"
    /\ wpc' = [wpc EXCEPT ![w] = "exited"]
    /\ UNCHANGED <<cfgVars, toDownload, ctxDone, fdVars, done, launcher,
                   filterVars, sent, cur, attempts, saveErr, permits, panicked>>

\* ---------------------------------------------------------------- specification
Progress ==
    \/ CallerClose
    \/ FDCheckDumpfiles
    \/ FDMkdir
    \/ FDStart
    \/ LauncherSpawn
    \/ LauncherExit
    \/ SentinelWait
    \/ SentinelWake
    \/ SentinelClose
    \/ \E w \in WorkerIds : WorkerStart(w)
    \/ \E w \in WorkerIds : FilterRecv(w)
    \/ \E w \in WorkerIds : FilterClose(w)
    \/ \E w \in WorkerIds : WorkerRecv(w)
    \/ \E w \in WorkerIds : SaveCreate(w)
    \/ \E w \in WorkerIds : SaveTransfer(w)
    \/ \E w \in WorkerIds : SaveLimit(w)
    \/ \E w \in WorkerIds : WorkerDone(w)
    \/ \E w \in WorkerIds : WorkerRelease(w)

Next == Progress \/ Cancel

Spec == Init /\ [][Next]_vars

\* Every goroutine that can take a step eventually takes one (the Go scheduler
\* starves no runnable goroutine); cancellation is up to the caller.
FairSpec == Spec /\ WF_vars(Progress)

\* ---------------------------------------------------------------- filesFromMessages
\* A []slack.File value: nil or a (possibly empty) slice.
FileSlice(S) ==
    {[isNil |-> TRUE, elems |-> <<>>]} \cup
    [isNil : {FALSE}, elems : SeqsUpTo(S, MaxAttach)]

\* The attachments that occur in the message slices.
ExtractFile == [ID : IDs, Name : {"a"}]

\* A threaded reply: a Message of which only Files is read.
Reply == [Files : FileSlice(ExtractFile)]

\* Message, reduced to Files and ThreadReplies.
Message == [Files : FileSlice(ExtractFile), ThreadReplies : SeqsUpTo(Reply, MaxReplies)]

\* for _, reply := range m[i].ThreadReplies { files = append(files, reply.Files...) }
RECURSIVE appendReplies(_, _, _)
appendReplies(files, replies, j) ==
    IF j > Len(replies)
      THEN files
      ELSE appendReplies(files \o replies[j].Files.elems, replies, j + 1)

\* Faulty variant of extractMessage: the replies' files come before the message's own.
extractMessage_RepliesFirst(files, msg) ==
    appendReplies(files, msg.ThreadReplies, 1)
        \o (IF ~msg.Files.isNil THEN msg.Files.elems ELSE <<>>)

\* One iteration of "for i := range m":
\*   if m[i].Files != nil { files = append(files, m[i].Files...) }, then the replies.
extractMessage(files, msg) ==
    appendReplies(IF ~msg.Files.isNil THEN files \o msg.Files.elems ELSE files,
                  msg.ThreadReplies, 1)

RECURSIVE filesFromMessagesLoop(_, _, _)
filesFromMessagesLoop(files, m, i) ==
    IF i > Len(m)
      THEN files
      ELSE filesFromMessagesLoop(extractMessage(files, m[i]), m, i + 1)

\* var files []slack.File; for i := range m { ... }; return files
filesFromMessages(m) == filesFromMessagesLoop(<<>>, m, 1)

\* ChannelFiles: Files: sd.filesFromMessages(ch.Messages)
ChannelFiles ==
    /\ ~chFiles.set
    /\ chFiles' = [set |-> TRUE, Files |-> filesFromMessages(messages)]
    /\ UNCHANGED <<messages, dumpfiles, workers, toDownload, ctxDone, fdVars, done, wg,
                   launcher, sentinel, filterVars, sent, workerVars, panicked>>

\* The extractor alone, on every message slice within the bounds.
InitExtract ==
    /\ messages \in SeqsUpTo(Message, MaxMsgs)
    /\ chFiles = [set |-> FALSE, Files |-> <<>>]
    /\ dumpfiles = FALSE
    /\ workers = 1
    /\ toDownload = [items |-> <<>>, next |-> 1, closed |-> FALSE]
    /\ ctxDone = FALSE
    /\ fdPc = "start"
    /\ retErr = "none"
    /\ done = "open"
    /\ dirState = "absent"
    /\ mkdirErr = "none"
    /\ wg = [counter |-> 0, waiters |-> 0]
    /\ launcher = [pc |-> "idle", i |-> 0]
    /\ sentinel = "idle"
    /\ wpc = [w \in WorkerIds |-> "idle"]
    /\ cur = [w \in WorkerIds |-> NoFile]
    /\ fpc = [w \in WorkerIds |-> "idle"]
    /\ seen = [w \in WorkerIds |-> {}]
    /\ held = [w \in WorkerIds |-> NoFile]
    /\ recvd = [w \in WorkerIds |-> <<>>]
    /\ sent = [w \in WorkerIds |-> <<>>]
    /\ admitted = <<>>
    /\ attempts = [w \in WorkerIds |-> <<>>]
    /\ saveErr = [w \in WorkerIds |-> "none"]
    /\ permits = 0
    /\ panicked = FALSE

NextExtract == ChannelFiles

SpecExtract == InitExtract /\ [][NextExtract]_vars

\* ================================================================ properties
\* Downloading is enabled and the directory is ready: fileDownloader has
\* returned done with a nil error after starting its goroutines.
Running == dumpfiles /\ fdPc = "returned" /\ retErr = "nil"

\* The workers this run launches.
RunWorkers == 1 .. workers

Occurrences(s, id) == {k \in DOMAIN s : s[k].ID = id}

\* Number of os.Create calls made so far for attachment id by workers 1..w.
RECURSIVE CreateCallsUpTo(_, _)
CreateCallsUpTo(id, w) ==
    IF w = 0 THEN 0
    ELSE Cardinality(Occurrences(attempts[w], id)) + CreateCallsUpTo(id, w - 1)

\* Number of os.Create calls made so far for attachment id, over all workers.
CreateCalls(id) == CreateCallsUpTo(id, MaxWorkers)

\* The workers that were handed attachment id.
HandedTo(id) == {w \in WorkerIds : Occurrences(sent[w], id) # {}}

\* C1: each distinct attachment ID is handed to at most one worker and
\* produces at most one file-create call over the whole run.
C1_NoDoubleWrite ==
    \A id \in IDs : Cardinality(HandedTo(id)) <= 1 /\ CreateCalls(id) <= 1

\* C2: with downloading enabled and the directory ready, done is closed only
\* when every configured worker has been started and has exited.
C2_DoneAfterAllWorkers ==
    (Running /\ done = "closed") => \A w \in RunWorkers : wpc[w] = "exited"

\* C3: with downloading enabled and the directory ready, done is eventually
\* closed, for every input, worker count and pattern of download failures.
C3_CompletionLiveness == Running ~> (done = "closed")

\* The first occurrences of each ID in s, in the order of s.
RECURSIVE FirstOccurrences(_)
FirstOccurrences(s) ==
    IF s = <<>> THEN <<>>
    ELSE LET n == Len(s)
             front == SubSeq(s, 1, n - 1)
         IN IF Occurrences(front, s[n].ID) = {}
              THEN Append(FirstOccurrences(front), s[n])
              ELSE FirstOccurrences(front)

\* What a seenFilter has put on its dlQ: the files delivered, then the one
\* its pending send offers.
Emitted(w) == IF fpc[w] = "send" THEN Append(sent[w], held[w]) ELSE sent[w]

\* C4: a seenFilter emits each ID of its input exactly once, and the item it
\* emits for an ID is the first occurrence of that ID in its input.
C4_DedupFirstOccurrence ==
    \A w \in WorkerIds : Emitted(w) = FirstOccurrences(recvd[w])

\* C4 witness: a seenFilter has finished an input in which an ID came twice
\* with different contents.
C4_Witness ==
    \E w \in WorkerIds :
        /\ fpc[w] = "closed"
        /\ \E j, k \in DOMAIN recvd[w] :
             j < k /\ recvd[w][j].ID = recvd[w][k].ID /\ recvd[w][j].Name # recvd[w][k].Name

\* The attachments of the message slice, each named by its place: <<i, 0, j>>
\* is the j-th direct attachment of message i, <<i, r, j>> the j-th attachment
\* of its r-th reply.
Slots ==
    UNION {{<<i, 0, j>> : j \in DOMAIN messages[i].Files.elems} : i \in DOMAIN messages}
    \cup
    UNION {UNION {{<<i, r, j>> : j \in DOMAIN messages[i].ThreadReplies[r].Files.elems}
                  : r \in DOMAIN messages[i].ThreadReplies}
           : i \in DOMAIN messages}

SlotBefore(a, b) ==
    \/ a[1] < b[1]
    \/ a[1] = b[1] /\ a[2] < b[2]
    \/ a[1] = b[1] /\ a[2] = b[2] /\ a[3] < b[3]

SlotRank(a) == Cardinality({b \in Slots : SlotBefore(b, a)}) + 1

SlotFile(a) ==
    IF a[2] = 0 THEN messages[a[1]].Files.elems[a[3]]
    ELSE messages[a[1]].ThreadReplies[a[2]].Files.elems[a[3]]

C6_DisabledShortCircuit ==
    /\ []((~dumpfiles /\ fdPc = "returned") => (done = "closed" /\ retErr = "nil"))
    /\ [][~dumpfiles =>
            /\ UNCHANGED <<dirState, attempts, wpc, fpc, launcher, sentinel>>
            /\ toDownload'.next = toDownload.next]_vars

\* C6 witness: fileDownloader has returned with dumpfiles false while the
\* caller has files to send.
C6_Witness ==
    ~dumpfiles /\ fdPc = "returned" /\ Len(toDownload.items) >= 2

\* The step was a SaveFileTo of worker w that returned an error.
SaveFailed(w) ==
    saveErr[w] = "none" /\ saveErr'[w] \in {"create", "transfer"}

\* C7: a failed SaveFileTo leaves its worker at the head of its loop, stops no
\* other worker and does not touch fileDownloader's result; a worker that has
\* exited has attempted every item it was handed.
C7_FailureDoesNotAbort ==
    /\ [](\A w \in WorkerIds :
            wpc[w] \in {"release", "exited"} =>
                (fpc[w] = "closed" /\ attempts[w] = Emitted(w)))
    /\ [][\A w \in WorkerIds :
            SaveFailed(w) =>
                /\ wpc'[w] = "recv"
                /\ \A v \in WorkerIds \ {w} : wpc'[v] = wpc[v]
                /\ UNCHANGED <<retErr, fdPc, done>>]_vars

\* C7 witness: a worker's SaveFileTo has failed at file creation, the worker is
\* back at its loop head and its next item is on offer.
C7_Witness ==
    \E w \in WorkerIds :
        /\ saveErr[w] = "create"
        /\ wpc[w] = "recv"
        /\ fpc[w] = "send"
        /\ \E v \in WorkerIds \ {w} : wpc[v] \in {"create", "transfer", "limit"}

\* C8: when os.Mkdir fails other than with "already exists" (the directory is
\* still absent when fileDownloader returns), fileDownloader returns that
\* error, and no worker is started, no item taken and no file created.
C8_PreflightFailure ==
    (dumpfiles /\ fdPc = "returned" /\ dirState = "absent") =>
        /\ retErr = "other"
        /\ launcher.pc = "idle"
        /\ sentinel = "idle"
        /\ \A w \in WorkerIds : wpc[w] = "idle" /\ fpc[w] = "idle" /\ attempts[w] = <<>>
        /\ toDownload.next = 1

\* C8 witness: fileDownloader has returned the Mkdir error while the caller
\* has files to send.
C8_Witness ==
    dumpfiles /\ fdPc = "returned" /\ retErr = "other" /\ Len(toDownload.items) >= 2

\* C9: if ctx is cancelled during a run, done is still eventually closed.
C9_CancelLiveness == (Running /\ ctxDone) ~> (done = "closed")

\* C10: once ctx is cancelled, no worker begins another file-create.
C10_CancelStopsDownloads == [][ctxDone => attempts' = attempts]_vars

\* The seenFilter goroutines (each with its own seen map and dlQ) started so far.
DedupStages == {w \in WorkerIds : fpc[w] # "idle"}

\* C11: a run has one dedup stage, with one seen set and one download queue
\* that all workers read from: never more than one seenFilter is started.
C11_SingleDedupStage == Cardinality(DedupStages) <= 1

\* The part of the caller's sequence that has been received so far.
Consumed == SubSeq(toDownload.items, 1, toDownload.next - 1)

\* C12: the order in which items are put on the download queue is fixed by the
\* input alone: it is the input order restricted to the first occurrence of
\* each ID, in every interleaving and for every worker count.
C12_AdmissionOrder == admitted = FirstOccurrences(Consumed)

\* Worker w is inside SaveFileTo: about to create its file, or holding it open.
InFlight(w) == wpc[w] \in {"create", "transfer", "limit"}

\* filePath := filepath.Join(dir, filename(f)), for the one dir of the run.
DestPath(w) == filename(cur[w])

\* C13: no two workers are at the same time creating or writing the same
\* destination path.
C13_NoPathContention ==
    \A v, w \in WorkerIds :
        (v # w /\ InFlight(v) /\ InFlight(w)) => DestPath(v) # DestPath(w)

\* fileDownloader returns a nil error with both goroutines freshly started.
StartedClean ==
    /\ fdPc = "returned"
    /\ retErr = "nil"
    /\ launcher = [pc |-> "loop", i |-> 0]
    /\ sentinel = "wait"
    /\ done = "open"
    /\ dirState = "present"

\* C14: when os.Mkdir reports that the directory already exists, there is no
\* pre-flight error: fileDownloader goes on to start the goroutines and to
\* return nil, with the same outcome as after creating the directory.
C14_DirectoryIdempotence ==
    /\ [](mkdirErr \in {"exist", "nil"} => (fdPc = "spawn" /\ retErr = "none"))
    /\ [][(mkdirErr \in {"exist", "nil"} /\ fdPc' # fdPc) => StartedClean']_vars

\* C14 witness: os.Mkdir has reported "already exists" and fileDownloader has
\* gone past the error test without returning.
C14_Witness ==
    dumpfiles /\ mkdirErr = "exist" /\ fdPc = "spawn" /\ Len(toDownload.items) >= 2

\* seenFilter w is running: started and its dlQ not yet closed.
FilterActive(w) == fpc[w] \in {"recv", "send"}

\* A closed dlQ was closed in time: upstream is closed and drained and every
\* item the filter admitted has been delivered.
ClosedInTime(w) ==
    fpc[w] = "closed" =>
        /\ toDownload.closed
        /\ toDownload.next > Len(toDownload.items)
        /\ sent[w] = FirstOccurrences(recvd[w])

\* C15: a seenFilter closes its dlQ exactly when its upstream is closed and
\* drained: never earlier, and always eventually afterwards, whatever it dropped.
C15_DedupTermination ==
    /\ [](\A w \in WorkerIds : ClosedInTime(w))
    /\ \A w \in WorkerIds :
         (toDownload.closed /\ FilterActive(w)) ~> (fpc[w] = "closed")

\* Number of SaveFileTo calls of workers 1..w that have returned.
RECURSIVE SavesReturnedUpTo(_)
SavesReturnedUpTo(w) ==
    IF w = 0 THEN 0
    ELSE Len(attempts[w]) - (IF wpc[w] \in {"transfer", "limit"} THEN 1 ELSE 0)
         + SavesReturnedUpTo(w - 1)

\* C16: in SaveFileTo the file is created, then the bytes are transferred,
\* then one limiter permit is awaited; a permit is only ever taken by a worker
\* whose transfer is over, so no transfer waits for a permit of its own item.
C16_StepOrder ==
    /\ [](permits <= SavesReturnedUpTo(MaxWorkers))
    /\ [][/\ \A w \in WorkerIds :
               /\ (wpc'[w] = "transfer" /\ wpc[w] # "transfer") =>
                      (wpc[w] = "create" /\ attempts'[w] = Append(attempts[w], cur[w]))
               /\ (wpc'[w] = "limit" /\ wpc[w] # "limit") => wpc[w] = "transfer"
          /\ permits' # permits =>
               \E w \in WorkerIds : wpc[w] = "limit" /\ wpc'[w] = "recv"]_vars

\* C16 witness: a worker has created and transferred its first file and is at
\* the limiter wait, no permit having been granted to it before.
C16_Witness ==
    \E w \in WorkerIds :
        wpc[w] = "limit" /\ Len(attempts[w]) = 1 /\ permits = 0

\* Workers launched so far (go func() started by the launcher loop).
Launched == {w \in WorkerIds : wpc[w] # "idle"}

\* C17: with downloading enabled and the directory ready, the launcher starts
\* workers 1, 2, ... and never more than sd.options.workers of them; when its
\* loop is over exactly that many were launched; so at most that many
\* downloads are in flight in any state.
C17_BoundedFanOut ==
    /\ launcher.i <= workers
    /\ Launched = 1 .. launcher.i
    /\ launcher.pc = "exited" => Cardinality(Launched) = workers
    /\ Cardinality({w \in WorkerIds : InFlight(w)}) <= workers
    /\ launcher.pc # "idle" => Running

\* C17 witness: the launcher loop is over and every configured worker is
\* inside SaveFileTo at once.
C17_Witness ==
    /\ workers = MaxWorkers
    /\ launcher.pc = "exited"
    /\ \A w \in RunWorkers : InFlight(w)

\* Distinct attachment IDs the caller has sent on toDownload so far.
OfferedIDs == {toDownload.items[k].ID : k \in 1 .. (toDownload.next - 1)}

\* C18: in a run without cancellation whose input channel has been closed,
\* once done is closed every distinct attachment ID that was sent on
\* toDownload has had at least one os.Create attempt by some worker.
C18_NoLostItems ==
    (Running /\ ~ctxDone /\ toDownload.closed /\ done = "closed") =>
        \A id \in OfferedIDs : CreateCalls(id) >= 1

\* C19: when fileDownloader returns the Mkdir error (an error other than
\* "already exists"), the done channel it returns with it is closed.
C19_DoneClosedOnPreflightError ==
    (fdPc = "returned" /\ retErr = "other") => done = "closed"

\* Items a dedup stage has admitted and not yet handed to its worker.
Undelivered(w) == Len(FirstOccurrences(recvd[w])) - Len(sent[w])

\* Each dedup stage holds at most one admitted, undelivered item, and takes a
\* file from upstream only while it holds none.
OneSlotPerStage ==
    /\ [](\A w \in WorkerIds :
            /\ Undelivered(w) = (IF fpc[w] = "send" THEN 1 ELSE 0)
            /\ held[w] # NoFile <=> fpc[w] = "send")
    /\ [][\A w \in WorkerIds :
            recvd'[w] # recvd[w] => (fpc[w] = "recv" /\ Undelivered(w) = 0)]_vars

\* The producer's send on toDownload completes only into a dedup stage that is
\* waiting at its receive; with none waiting the producer is blocked.
ProducerMeetsReceiver ==
    [][toDownload'.next # toDownload.next =>
         \E w \in WorkerIds :
             /\ fpc[w] = "recv"
             /\ recvd'[w] = Append(recvd[w], toDownload.items[toDownload.next])]_vars

\* C20 as stated: one slot per dedup stage, and the producer sends nothing
\* while all workers are busy.
C20_Backpressure ==
    /\ OneSlotPerStage
    /\ ProducerMeetsReceiver
    /\ [][(Launched = RunWorkers /\ \A w \in RunWorkers : InFlight(w)) =>
              toDownload'.next = toDownload.next]_vars

\* C20 as amended: one slot per dedup stage, and the producer sends nothing
\* while every launched worker is busy and its dedup stage holds an admitted,
\* undelivered item.
C20_BackpressureAmended ==
    /\ OneSlotPerStage
    /\ ProducerMeetsReceiver
    /\ [][(Launched = RunWorkers
           /\ \A w \in RunWorkers : InFlight(w) /\ Undelivered(w) = 1) =>
              toDownload'.next = toDownload.next]_vars

\* C20 witness: every worker of the run is inside SaveFileTo, its dedup stage
\* holds the next admitted item, and the producer has a further file to send.
C20_Witness ==
    /\ Launched = RunWorkers
    /\ \A w \in RunWorkers : InFlight(w) /\ fpc[w] = "send" /\ Undelivered(w) = 1
    /\ CallerOffers

\* Worker w's SaveFileTo returns in this step.
SaveReturns(w) == InFlight(w) /\ wpc'[w] = "recv"

\* C21: a SaveFileTo that fails at os.Create or at GetFile returns its error
\* straight from that step, without reaching l.Wait and with the permits
\* unchanged, and the worker is back at its receive; l.Wait is entered only
\* after a successful transfer, is left only by a successful return, and is
\* the only step that takes a permit, one at a time.
C21_FailureTakesNoPermit ==
    [][/\ \A w \in WorkerIds :
            /\ (SaveReturns(w) /\ saveErr'[w] # "nil") =>
                   /\ wpc[w] \in {"create", "transfer"}
                   /\ saveErr'[w] = wpc[w]
                   /\ permits' = permits
            /\ (wpc'[w] = "limit" /\ wpc[w] # "limit") =>
                   (wpc[w] = "transfer" /\ saveErr'[w] = "none")
            /\ (wpc[w] = "limit" /\ wpc'[w] # "limit") =>
                   (SaveReturns(w) /\ saveErr'[w] = "nil")
       /\ permits' # permits =>
            /\ permits' = permits + 1
            /\ \E w \in WorkerIds :
                   wpc[w] = "limit" /\ SaveReturns(w) /\ saveErr'[w] = "nil"]_vars

\* C21 witness: a worker has had one download succeed and the next one fail,
\* and is back at its receive with exactly one permit taken in the run.
C21_Witness ==
    \E w \in WorkerIds :
        /\ ~ctxDone
        /\ wpc[w] = "recv"
        /\ Len(attempts[w]) = 2
        /\ saveErr[w] \in {"create", "transfer"}
        /\ permits = 1

====
